---- MODULE Spec2Model ----
(***************************************************************************)
(* A model of the CSON parser of src/cson_parser.py.                       *)
(*                                                                         *)
(* A text is a sequence of characters, a character is a one-element        *)
(* string.  Indices are the 0-based indices of the Python source: At(s, i) *)
(* is s[i].  The character "1/2" stands for U+00BD, a character for which  *)
(* str.isnumeric() holds and which float() rejects.                        *)
(*                                                                         *)
(* Every consume operation yields a result record:                         *)
(*   kind = "None"   the Python value None (no match),                     *)
(*   kind = "ok"     a ParserResultWrapper (next_input_index, parsed_token)*)
(*   any other kind  the class name of the exception that was raised.      *)
(***************************************************************************)
EXTENDS Integers, Sequences, FiniteSets, TLC

(* ------------------------------ bounds -------------------------------- *)

\* longest text, in characters, handed to a leaf consume (Number, Boolean)
MaxLeafLen == 4
\* longest text, in fragments of StringVocab, handed to a string consume
MaxStringLen == 4
\* longest text, in fragments of ListVocab, handed to a List consume
MaxListLen == 5
\* longest text, in fragments of DictVocab, handed to a Dict consume or to parse_cson
MaxDictLen == 4

\* the most fragments of a text the dispatcher is called on
MaxDispatchLen == 4

(* ---------------------------- characters ------------------------------ *)

\* str.isspace()
isspace(c) == c \in {" ", "\n"}
\* str.isalpha(), on the letters the texts are made of
isalpha(c) == c \in {"a", "b", "e", "f", "l", "r", "s", "t", "u", "x"}
\* the characters float() reads as decimal digits
isdecimal(c) == c \in {"0", "1", "2", "3", "4", "5", "6", "7", "8", "9"}
\* str.isnumeric(): the decimal digits and the other numeric characters
isnumeric(c) == isdecimal(c) \/ c = "1/2"
\* str.isalnum()
isalnum(c) == isalpha(c) \/ isnumeric(c)

Min(a, b) == IF a < b THEN a ELSE b

\* str_input[i], for 0 <= i < len(str_input)
At(s, i) == s[i + 1]
\* str_input[a:b], for 0 <= a
Slice(s, a, b) == SubSeq(s, a + 1, Min(b, Len(s)))

(* ------------------------------ values -------------------------------- *)

\* A parsed value; every value carries every field so that two values of
\* different types can be compared.
\*   t = "str"    s is the text
\*   t = "float"  the number is m * 10^(-e), m not divisible by 10 unless e = 0
\*   t = "bool"   b
\*   t = "list"   items is the sequence of the elements
\*   t = "dict"   items is the sequence of [key, val] in insertion order
Value(t, s, m, e, b, items) ==
    [t |-> t, s |-> s, m |-> m, e |-> e, b |-> b, items |-> items]
StrValue(s) == Value("str", s, 0, 0, FALSE, <<>>)
FloatValue(m, e) == Value("float", <<>>, m, e, FALSE, <<>>)
BoolValue(b) == Value("bool", <<>>, 0, 0, b, <<>>)
ListValue(items) == Value("list", <<>>, 0, 0, FALSE, items)
DictValue(items) == Value("dict", <<>>, 0, 0, FALSE, items)

(* ------------------------------ results ------------------------------- *)

NoValue == Value("none", <<>>, 0, 0, FALSE, <<>>)
Result(kind, next, value, index, stop_char) ==
    [kind |-> kind, next |-> next, value |-> value, index |-> index, stop_char |-> stop_char]
\* the Python value None
None == Result("None", -1, NoValue, -1, <<>>)
\* ParserResultWrapper(next_input_index, token) with token.value = value
ParserResultWrapper(next, value) == Result("ok", next, value, -1, <<>>)
DelimiterNotFoundError(stop_char, index_from) ==
    Result("DelimiterNotFoundError", -1, NoValue, index_from, stop_char)
TextEndedPrematurelyError == Result("TextEndedPrematurelyError", -1, NoValue, -1, <<>>)
UnknownTokenError(index) == Result("UnknownTokenError", -1, NoValue, index, <<>>)
BrokenTokenError(index) == Result("BrokenTokenError", -1, NoValue, index, <<>>)
\* the exceptions of the Python runtime that the parser does not catch
TypeError == Result("TypeError", -1, NoValue, -1, <<>>)
IndexError == Result("IndexError", -1, NoValue, -1, <<>>)
ValueError == Result("ValueError", -1, NoValue, -1, <<>>)

IsRaise(r) == r.kind \notin {"None", "ok"}

(* ------------------------- scanner primitives ------------------------- *)

\* the Python value None where an index is expected
NoIndex == -1

RECURSIVE ignore_whitespace(_, _)
ignore_whitespace(str_input, current_index) ==
    IF current_index < Len(str_input) /\ isspace(At(str_input, current_index))
    THEN ignore_whitespace(str_input, current_index + 1)
    ELSE current_index

\* the index right after text_to_match, or None
match_ignore_text(str_input, start_index, text_to_match) ==
    LET index_after_seq == start_index + Len(text_to_match)
    IN  IF /\ index_after_seq <= Len(str_input)
           /\ Slice(str_input, start_index, index_after_seq) = text_to_match
        THEN index_after_seq
        ELSE NoIndex

match_ignore_alpha(str_input, index) ==
    IF index < Len(str_input) /\ isalpha(At(str_input, index))
    THEN index + 1
    ELSE NoIndex

(* -------------------------------- Name -------------------------------- *)

Literal_false == <<"f", "a", "l", "s", "e">>
Literal_true == <<"t", "r", "u", "e">>

\* the loop of consume_name: the end of the run of alphanumerics and "_"
RECURSIVE consume_name_rest(_, _)
consume_name_rest(str_input, i) ==
    IF i < Len(str_input) /\ (isalnum(At(str_input, i)) \/ At(str_input, i) = "_")
    THEN consume_name_rest(str_input, i + 1)
    ELSE i

consume_name(str_input, start_index) ==
    LET first == match_ignore_alpha(str_input, start_index)
    IN  IF first = NoIndex
        THEN None
        ELSE LET i == consume_name_rest(str_input, first)
                 name == Slice(str_input, start_index, i)
             IN  IF name \in {Literal_false, Literal_true}
                 THEN None
                 ELSE ParserResultWrapper(i, StrValue(name))

(* ------------------------------- Number ------------------------------- *)

DigitValue(c) ==
    CASE c = "0" -> 0 [] c = "1" -> 1 [] c = "2" -> 2 [] c = "3" -> 3 [] c = "4" -> 4
      [] c = "5" -> 5 [] c = "6" -> 6 [] c = "7" -> 7 [] c = "8" -> 8 [] c = "9" -> 9

\* float() raises ValueError on a text that holds a character it cannot read
float_raises(text) ==
    \E k \in 1..Len(text) : ~(isdecimal(text[k]) \/ text[k] \in {"-", "."})

\* the integer written by the decimal digits of text, read left to right
RECURSIVE digits_value(_, _)
digits_value(text, acc) ==
    IF text = <<>> THEN acc
    ELSE IF isdecimal(Head(text))
         THEN digits_value(Tail(text), 10 * acc + DigitValue(Head(text)))
         ELSE digits_value(Tail(text), acc)

\* m * 10^(-e) with the trailing zeros of the fraction dropped
RECURSIVE float_normal(_, _)
float_normal(m, e) ==
    IF e > 0 /\ m % 10 = 0 THEN float_normal(m \div 10, e - 1) ELSE FloatValue(m, e)

\* float(text) for a text of the form -?digits(.digits)?
float(text) ==
    LET dot == {k \in 1..Len(text) : text[k] = "."}
        e == IF dot = {} THEN 0 ELSE Len(text) - (CHOOSE k \in dot : TRUE)
        m == digits_value(text, 0)
        v == float_normal(m, e)
    IN  IF text # <<>> /\ Head(text) = "-" THEN FloatValue(0 - v.m, v.e) ELSE v

\* the while loops of CSON_NumberToken.consume: the end of the run of numerics
RECURSIVE consume_numerics(_, _)
consume_numerics(str_input, index) ==
    IF index < Len(str_input) /\ isnumeric(At(str_input, index))
    THEN consume_numerics(str_input, index + 1)
    ELSE index

\* CSON_NumberToken.consume without the check of the character that follows
\* the number (lines 282-285)
CSON_NumberToken_consume_unchecked(str_input, start_index) ==
    IF start_index >= Len(str_input)
    THEN IndexError
    ELSE
    LET input_length == Len(str_input)
        index1 == IF At(str_input, start_index) = "-" THEN start_index + 1 ELSE start_index
    IN  IF ~(index1 < input_length /\ isnumeric(At(str_input, index1)))
        THEN None
        ELSE
        LET index3 == consume_numerics(str_input, index1 + 1)
            has_dot == index3 < input_length /\ At(str_input, index3) = "."
            index_after_dot == index3 + 1
            index == IF has_dot THEN consume_numerics(str_input, index_after_dot) ELSE index3
        IN  IF has_dot /\ index = index_after_dot
            THEN BrokenTokenError(start_index)
            ELSE LET text == Slice(str_input, start_index, index)
                 IN  IF float_raises(text)
                     THEN ValueError
                     ELSE ParserResultWrapper(index, float(text))

CSON_NumberToken_consume(str_input, start_index) ==
    IF start_index >= Len(str_input)
    THEN IndexError    \* str_input[index] of line 255
    ELSE
    LET input_length == Len(str_input)
        \* 1. negative or not
        index1 == IF At(str_input, start_index) = "-" THEN start_index + 1 ELSE start_index
    IN  \* 2. it must start with a number
        IF ~(index1 < input_length /\ isnumeric(At(str_input, index1)))
        THEN None
        ELSE
        LET \* 3. all following digits
            index3 == consume_numerics(str_input, index1 + 1)
            has_dot == index3 < input_length /\ At(str_input, index3) = "."
            index_after_dot == index3 + 1
            \* 5. the digits after the dot
            index == IF has_dot THEN consume_numerics(str_input, index_after_dot) ELSE index3
        IN  IF has_dot /\ index = index_after_dot
            THEN BrokenTokenError(start_index)
            ELSE IF /\ index < input_length
                    /\ ~(isspace(At(str_input, index)) \/ At(str_input, index) \in {"]", "}"})
                 THEN BrokenTokenError(start_index)
                 ELSE LET text == Slice(str_input, start_index, index)
                      IN  IF float_raises(text)
                          THEN ValueError
                          ELSE ParserResultWrapper(index, float(text))

(* ------------------------------- Boolean ------------------------------ *)

\* one turn of the loop over the literals
CSON_BooleanToken_try(str_input, start_index, literal) ==
    IF At(str_input, start_index) # literal[1]
    THEN NoIndex
    ELSE match_ignore_text(str_input, start_index, literal)

CSON_BooleanToken_consume(str_input, start_index) ==
    IF start_index >= Len(str_input)
    THEN IndexError    \* str_input[start_index] of line 304
    ELSE IF CSON_BooleanToken_try(str_input, start_index, Literal_false) # NoIndex
         THEN ParserResultWrapper(
                  CSON_BooleanToken_try(str_input, start_index, Literal_false), BoolValue(FALSE))
         ELSE IF CSON_BooleanToken_try(str_input, start_index, Literal_true) # NoIndex
              THEN ParserResultWrapper(
                       CSON_BooleanToken_try(str_input, start_index, Literal_true), BoolValue(TRUE))
              ELSE None

(* ------------------------- delimited tokens --------------------------- *)

CSON_ListToken == "CSON_ListToken"
CSON_DictToken == "CSON_DictToken"
CSON_StringToken == "CSON_StringToken"
CSON_MultiLineStringToken == "CSON_MultiLineStringToken"
CSON_NumberToken == "CSON_NumberToken"
CSON_BooleanToken == "CSON_BooleanToken"

\* the candidate types of the dispatcher, in the order init() sets
SUBTOKEN_TYPES ==
    << CSON_ListToken, CSON_DictToken, CSON_StringToken, CSON_MultiLineStringToken,
       CSON_NumberToken, CSON_BooleanToken >>

DelimitedTypes ==
    {CSON_ListToken, CSON_DictToken, CSON_StringToken, CSON_MultiLineStringToken}

\* _DELIMITERS of each delimited token type: <<opening, closing>>
delimiters(token_type) ==
    CASE token_type = CSON_StringToken -> << <<"\"">>, <<"\"">> >>
      [] token_type = CSON_MultiLineStringToken -> << <<"'", "'", "'">>, <<"'", "'", "'">> >>
      [] token_type = CSON_DictToken -> << <<"{">>, <<"}">> >>
      [] token_type = CSON_ListToken -> << <<"[">>, <<"]">> >>

KEY_VALUE_INFIX_DELIMITER == ":"

\* token_type(start_index).value: the value of a freshly constructed token
new_token(token_type) ==
    CASE token_type \in {CSON_StringToken, CSON_MultiLineStringToken} -> StrValue(<<>>)
      [] token_type = CSON_DictToken -> DictValue(<<>>)
      [] token_type = CSON_ListToken -> ListValue(<<>>)

\* a dict that keeps every binding: the pair always goes last
dict_setitem_append(items, key, val) ==
    Append(items, [key |-> key, val |-> val])

\* self.value[key] = val on a dict in insertion order: an existing key keeps
\* its place and takes the new value, a new key goes last
dict_setitem(items, key, val) ==
    IF \E k \in 1..Len(items) : items[k].key = key
    THEN [k \in 1..Len(items) |->
             IF items[k].key = key THEN [key |-> key, val |-> val] ELSE items[k]]
    ELSE Append(items, [key |-> key, val |-> val])

\* a string sub-element that copies a backslash and stays where it is
CSON_StringBase_consume_next_sub_element_stall(value, str_input, start_index) ==
    IF At(str_input, start_index) = "\\"
    THEN ParserResultWrapper(start_index,
             StrValue(Append(value.s, At(str_input, start_index))))
    ELSE ParserResultWrapper(start_index + 1,
             StrValue(Append(value.s, At(str_input, start_index))))

\* a string sub-element that treats a backslash as any other character
CSON_StringBase_consume_next_sub_element_no_escape(value, str_input, start_index) ==
    ParserResultWrapper(start_index + 1,
        StrValue(Append(value.s, At(str_input, start_index))))

\* CSON_StringBase.consume_next_sub_element: one character, or a backslash
\* and the character after it
CSON_StringBase_consume_next_sub_element(value, str_input, start_index) ==
    IF At(str_input, start_index) = "\\"
    THEN ParserResultWrapper(start_index + 2,
             StrValue(value.s \o Slice(str_input, start_index, start_index + 2)))
    ELSE ParserResultWrapper(start_index + 1,
             StrValue(Append(value.s, At(str_input, start_index))))

\* The dispatcher, the consume of the composite types and the loop of
\* consume_until_end_seq call one another.
RECURSIVE cson_gen_next_token_from(_, _, _, _)
RECURSIVE consume(_, _, _)
RECURSIVE cson_gen_next_token(_, _, _)
RECURSIVE consume_until_end_seq_loop(_, _, _, _, _, _)

\* a dispatcher that goes on to the next candidate when a candidate raises
cson_gen_next_token_turn_retry(result, str_input, i, subtoken_types, k) ==
    IF result.kind = "ok"
    THEN result
    ELSE cson_gen_next_token_from(str_input, i, subtoken_types, k + 1)

\* the body of the for loop of cson_gen_next_token, for the candidate number
\* k whose consume has yielded result
cson_gen_next_token_turn(result, str_input, i, subtoken_types, k) ==
    IF result.kind = "None"
    THEN cson_gen_next_token_from(str_input, i, subtoken_types, k + 1)
    ELSE result    \* a ParserResultWrapper, or the exception raised

\* the for loop of cson_gen_next_token from candidate number k on
cson_gen_next_token_from(str_input, i, subtoken_types, k) ==
    IF k > Len(subtoken_types)
    THEN UnknownTokenError(i)
    ELSE cson_gen_next_token_turn(
             consume(subtoken_types[k], str_input, i), str_input, i, subtoken_types, k)

\* cson_gen_next_token after i = ignore_whitespace(str_input, i)
cson_gen_next_token_at(str_input, i, subtoken_types) ==
    IF i >= Len(str_input)
    THEN TextEndedPrematurelyError
    ELSE cson_gen_next_token_from(str_input, i, subtoken_types, 1)

cson_gen_next_token(str_input, i, subtoken_types) ==
    cson_gen_next_token_at(str_input, ignore_whitespace(str_input, i), subtoken_types)

\* a list that puts each new element first
CSON_ListToken_add_subtoken_first(parser_result, value, str_input) ==
    IF parser_result.kind = "ok"
    THEN ParserResultWrapper(
             ignore_whitespace(str_input, parser_result.next),
             ListValue(<<parser_result.value>> \o value.items))
    ELSE parser_result

\* CSON_ListToken.consume_next_sub_element once the dispatcher has yielded
\* parser_result; the result's value is self.value
CSON_ListToken_add_subtoken(parser_result, value, str_input) ==
    IF parser_result.kind = "ok"
    THEN ParserResultWrapper(
             ignore_whitespace(str_input, parser_result.next),
             ListValue(Append(value.items, parser_result.value)))
    ELSE parser_result

CSON_ListToken_consume_next_sub_element(value, str_input, start_index) ==
    CSON_ListToken_add_subtoken(
        cson_gen_next_token(str_input, start_index, SUBTOKEN_TYPES), value, str_input)

\* the return of _consume_key_value once the dispatcher has yielded token;
\* the result's value is [key, val]
CSON_DictToken_key_value(name_token, token) ==
    IF token.kind = "ok"
    THEN ParserResultWrapper(token.next, [key |-> name_token.value.s, val |-> token.value])
    ELSE token

\* _consume_key_value after i = ignore_whitespace(str_input, i)
CSON_DictToken_consume_key_value_at(name_token, str_input, i) ==
    IF i = Len(str_input)
    THEN None
    ELSE IF At(str_input, i) = KEY_VALUE_INFIX_DELIMITER
         THEN CSON_DictToken_key_value(
                  name_token, cson_gen_next_token(str_input, i + 1, SUBTOKEN_TYPES))
         ELSE None

\* _consume_key_value once consume_name has yielded name
CSON_DictToken_consume_key_value_of(name, str_input) ==
    IF name.kind = "None"
    THEN TypeError    \* i, name_token = None
    ELSE CSON_DictToken_consume_key_value_at(
             name, str_input, ignore_whitespace(str_input, name.next))

\* CSON_DictToken._consume_key_value
CSON_DictToken_consume_key_value(str_input, start_index) ==
    CSON_DictToken_consume_key_value_of(consume_name(str_input, start_index), str_input)

\* CSON_DictToken.consume_next_sub_element once _consume_key_value has
\* yielded result; the result's value is self.value
CSON_DictToken_bind(result, value, str_input) ==
    IF result.kind = "ok"
    THEN ParserResultWrapper(
             ignore_whitespace(str_input, result.next),
             DictValue(dict_setitem(value.items, result.value.key, result.value.val)))
    ELSE result    \* None, or the exception raised

CSON_DictToken_consume_next_sub_element(value, str_input, start_index) ==
    CSON_DictToken_bind(
        CSON_DictToken_consume_key_value(
            str_input, ignore_whitespace(str_input, start_index)),
        value, str_input)

\* new_token.consume_next_sub_element(str_input, start_index)
consume_next_sub_element(token_type, value, str_input, start_index) ==
    CASE token_type = CSON_ListToken ->
             CSON_ListToken_consume_next_sub_element(value, str_input, start_index)
      [] token_type = CSON_DictToken ->
             CSON_DictToken_consume_next_sub_element(value, str_input, start_index)
      [] OTHER ->
             CSON_StringBase_consume_next_sub_element(value, str_input, start_index)

\* The outcome of one turn of a loop: either the loop goes on (done = FALSE)
\* with the new j and the new value of the token, or the function ends with
\* result.
GoOn(j, value) == [done |-> FALSE, j |-> j, value |-> value, result |-> None]
End(j, value, result) == [done |-> TRUE, j |-> j, value |-> value, result |-> result]

\* a loop that answers every failure of a sub-element, an exception
\* included, with its own Broken-token
consume_until_end_seq_sub_catch(sub, start_index, j, value) ==
    IF sub.kind = "ok"
    THEN GoOn(sub.next, sub.value)
    ELSE End(j, value, BrokenTokenError(start_index))

\* a loop that answers a sub-element's no-match with no-match
consume_until_end_seq_sub_no_match(sub, start_index, j, value) ==
    IF sub.kind = "ok"
    THEN GoOn(sub.next, sub.value)
    ELSE End(j, value, sub)

\* the end of a turn of the loop of consume_until_end_seq, once
\* consume_next_sub_element has yielded sub
consume_until_end_seq_sub(sub, start_index, j, value) ==
    IF sub.kind = "ok"
    THEN GoOn(sub.next, sub.value)
    ELSE IF sub.kind = "None"
         THEN End(j, value, BrokenTokenError(start_index))
         ELSE End(j, value, sub)

\* one turn of the while loop of consume_until_end_seq together with the
\* statements after the loop
consume_until_end_seq_step(str_input, start_index, end_seq, token_type, j, value) ==
    IF j > Len(str_input) - Len(end_seq)
    THEN End(j, value, DelimiterNotFoundError(end_seq, start_index))
    ELSE IF match_ignore_text(str_input, j, end_seq) # NoIndex
         THEN End(j, value, ParserResultWrapper(j + Len(end_seq), value))
         ELSE consume_until_end_seq_sub(
                  consume_next_sub_element(token_type, value, str_input, j),
                  start_index, j, value)

consume_until_end_seq_next(step, str_input, start_index, end_seq, token_type) ==
    IF step.done
    THEN step.result
    ELSE consume_until_end_seq_loop(
             str_input, start_index, end_seq, token_type, step.j, step.value)

consume_until_end_seq_loop(str_input, start_index, end_seq, token_type, j, value) ==
    consume_until_end_seq_next(
        consume_until_end_seq_step(str_input, start_index, end_seq, token_type, j, value),
        str_input, start_index, end_seq, token_type)

consume_until_end_seq(str_input, start_index, end_seq, token_type) ==
    consume_until_end_seq_loop(
        str_input, start_index, end_seq, token_type, start_index, new_token(token_type))

consume_delimited_generic(token_type, str_input, start_index) ==
    IF match_ignore_text(str_input, start_index, delimiters(token_type)[1]) # NoIndex
    THEN consume_until_end_seq(
             str_input,
             match_ignore_text(str_input, start_index, delimiters(token_type)[1]),
             delimiters(token_type)[2], token_type)
    ELSE None

\* token_type.consume(str_input, start_index)
consume(token_type, str_input, start_index) ==
    CASE token_type = CSON_NumberToken -> CSON_NumberToken_consume(str_input, start_index)
      [] token_type = CSON_BooleanToken -> CSON_BooleanToken_consume(str_input, start_index)
      [] OTHER -> consume_delimited_generic(token_type, str_input, start_index)

(* ----------------------------- the document -------------------------- *)

\* the end of a turn of the loop of consume_document, once
\* consume_next_sub_element has yielded sub
consume_document_sub(sub, j, value) ==
    IF sub.kind = "ok"
    THEN GoOn(sub.next, sub.value)
    ELSE IF sub.kind = "None"
         THEN End(j, value, TypeError)    \* j = None; while j < input_length
         ELSE End(j, value, sub)

\* one turn of the while loop of CSON_DictToken.consume_document together
\* with the return after it
consume_document_step(str_input, j, value) ==
    IF ~(j < Len(str_input))
    THEN End(j, value, ParserResultWrapper(j, value))
    ELSE consume_document_sub(
             CSON_DictToken_consume_next_sub_element(value, str_input, j), j, value)

RECURSIVE consume_document_loop(_, _, _)
consume_document_next(step, str_input) ==
    IF step.done
    THEN step.result
    ELSE consume_document_loop(str_input, step.j, step.value)

consume_document_loop(str_input, j, value) ==
    consume_document_next(consume_document_step(str_input, j, value), str_input)

\* CSON_DictToken.consume_document; the result's value is document.value
consume_document(str_input) ==
    IF Len(str_input) = 0
    THEN ParserResultWrapper(0, DictValue(<<>>))
    ELSE consume_document_loop(str_input, ignore_whitespace(str_input, 0), DictValue(<<>>))

parse_cson(str_input) == consume_document(str_input)

(* ------------------------------ inputs -------------------------------- *)

\* the concatenation of a sequence of fragments
RECURSIVE Flatten(_)
Flatten(fragments) ==
    IF fragments = <<>> THEN <<>> ELSE Head(fragments) \o Flatten(Tail(fragments))

LeafVocab ==
    { <<"-">>, <<".">>, <<"0">>, <<"1">>, <<" ">>, <<"]">>, <<"1/2">>,
      Literal_true, Literal_false }
StringVocab ==
    { <<"\"">>, <<"'">>, <<"'", "'", "'">>, <<"\\">>, <<"a">> }
ListVocab ==
    { <<"[">>, <<"]">>, <<" ">>, <<",">>, <<"1">>, <<"\"", "\"">>, Literal_true }
DictVocab ==
    { <<"{">>, <<"}">>, <<" ">>, <<":">>, <<"a">>, <<"1">>, Literal_true,
      <<"a", ":", "1", " ">>, <<"a", ":", "0", " ">>, <<"b", ":", "1", " ">> }

\* fragments of every token type, for the dispatcher
DispatchVocab ==
    ListVocab \cup { <<"{">>, <<"}">>, <<"'", "'", "'">>, <<"a", ":", "1", " ">> }

(* --------------------------- the state machine ------------------------ *)

VARIABLES
    op,           \* the operation called: a token type (its consume), "parse_cson"
                  \* or "cson_gen_next_token"
    str_input,    \* the text
    start_index,  \* the index the operation is called with
    pc,           \* "call": not yet called; "loop": at the head of the while loop
                  \* of consume_until_end_seq or consume_document; "done": returned
    j,            \* the loop's cursor
    value,        \* new_token.value, document.value
    outcome       \* the result of the call, once pc = "done"

vars == <<op, str_input, start_index, pc, j, value, outcome>>

\* the operations in ops, called with a start index in starts on a text made
\* of at most max fragments of vocab
InitOf(ops, vocab, max, starts) ==
    \E n \in 0..max :
        \E fragments \in [1..n -> vocab] :
            /\ op \in ops
            /\ str_input = Flatten(fragments)
            /\ start_index \in starts
            /\ pc = "call"
            /\ j = 0
            /\ value = NoValue
            /\ outcome = None

\* the leaf consumes and the dispatcher on the leaf texts
InitLeaf ==
    InitOf({CSON_NumberToken, CSON_BooleanToken, "cson_gen_next_token"},
           LeafVocab, MaxLeafLen, {0, 1})
\* String and MultiLineString consume on the string texts
InitString ==
    InitOf({CSON_StringToken, CSON_MultiLineStringToken}, StringVocab, MaxStringLen, {0})
\* List consume on the list texts
InitList == InitOf({CSON_ListToken}, ListVocab, MaxListLen, {0})
\* Dict consume on the dict texts
InitDict == InitOf({CSON_DictToken}, DictVocab, MaxDictLen, {0})
\* parse_cson on the dict texts
InitDocument == InitOf({"parse_cson"}, DictVocab, MaxDictLen, {0})

\* cson_gen_next_token on texts of every token type
InitDispatch == InitOf({"cson_gen_next_token"}, DispatchVocab, MaxDispatchLen, {0, 1})

\* consume_until_end_seq's start_index: the index after the opening delimiter
\* (the document has none)
seq_start ==
    IF op \in DelimitedTypes THEN start_index + Len(delimiters(op)[1]) ELSE start_index

\* token_type.consume of a delimited type up to the head of the loop
ConsumeDelimited ==
    /\ pc = "call"
    /\ op \in DelimitedTypes
    /\ LET index == match_ignore_text(str_input, start_index, delimiters(op)[1])
       IN  IF index # NoIndex
           THEN /\ pc' = "loop"
                /\ j' = index
                /\ value' = new_token(op)
                /\ UNCHANGED outcome
           ELSE /\ pc' = "done"
                /\ outcome' = None
                /\ UNCHANGED <<j, value>>
    /\ UNCHANGED <<op, str_input, start_index>>

\* one turn of the loop of consume_until_end_seq, or its end
ConsumeUntilEndSeq ==
    /\ pc = "loop"
    /\ op \in DelimitedTypes
    /\ LET step == consume_until_end_seq_step(
                       str_input, seq_start, delimiters(op)[2], op, j, value)
       IN  IF step.done
           THEN /\ pc' = "done"
                /\ outcome' = step.result
                /\ UNCHANGED <<j, value>>
           ELSE /\ j' = step.j
                /\ value' = step.value
                /\ UNCHANGED <<pc, outcome>>
    /\ UNCHANGED <<op, str_input, start_index>>

NumberConsume ==
    /\ pc = "call"
    /\ op = CSON_NumberToken
    /\ pc' = "done"
    /\ outcome' = CSON_NumberToken_consume(str_input, start_index)
    /\ UNCHANGED <<op, str_input, start_index, j, value>>

BooleanConsume ==
    /\ pc = "call"
    /\ op = CSON_BooleanToken
    /\ pc' = "done"
    /\ outcome' = CSON_BooleanToken_consume(str_input, start_index)
    /\ UNCHANGED <<op, str_input, start_index, j, value>>

GenNextToken ==
    /\ pc = "call"
    /\ op = "cson_gen_next_token"
    /\ pc' = "done"
    /\ outcome' = cson_gen_next_token(str_input, start_index, SUBTOKEN_TYPES)
    /\ UNCHANGED <<op, str_input, start_index, j, value>>

\* parse_cson that asks for a sub-element whatever the text: on the empty
\* text it ends as the dispatcher does at the end of the input
ParseCson_empty_raises ==
    /\ pc = "call"
    /\ op = "parse_cson"
    /\ IF Len(str_input) = 0
       THEN /\ pc' = "done"
            /\ outcome' = TextEndedPrematurelyError
            /\ UNCHANGED <<j, value>>
       ELSE /\ pc' = "loop"
            /\ j' = ignore_whitespace(str_input, start_index)
            /\ value' = DictValue(<<>>)
            /\ UNCHANGED outcome
    /\ UNCHANGED <<op, str_input, start_index>>

\* parse_cson: consume_document up to the head of its loop
ParseCson ==
    /\ pc = "call"
    /\ op = "parse_cson"
    /\ IF Len(str_input) = 0
       THEN /\ pc' = "done"
            /\ outcome' = ParserResultWrapper(0, DictValue(<<>>))
            /\ UNCHANGED <<j, value>>
       ELSE /\ pc' = "loop"
            /\ j' = ignore_whitespace(str_input, start_index)
            /\ value' = DictValue(<<>>)
            /\ UNCHANGED outcome
    /\ UNCHANGED <<op, str_input, start_index>>

\* one turn of the loop of consume_document, or its return
ConsumeDocument ==
    /\ pc = "loop"
    /\ op = "parse_cson"
    /\ LET step == consume_document_step(str_input, j, value)
       IN  IF step.done
           THEN /\ pc' = "done"
                /\ outcome' = step.result
                /\ UNCHANGED <<j, value>>
           ELSE /\ j' = step.j
                /\ value' = step.value
                /\ UNCHANGED <<pc, outcome>>
    /\ UNCHANGED <<op, str_input, start_index>>

NextLeaf == NumberConsume \/ BooleanConsume \/ GenNextToken
NextDelimited == ConsumeDelimited \/ ConsumeUntilEndSeq
NextDocument == ParseCson \/ ConsumeDocument

Init == InitLeaf \/ InitString \/ InitList \/ InitDict \/ InitDocument
Next == NextLeaf \/ NextDelimited \/ NextDocument
Spec == Init /\ [][Next]_vars

SpecLeaf == InitLeaf /\ [][NextLeaf]_vars
SpecString == InitString /\ [][NextDelimited]_vars
SpecList == InitList /\ [][NextDelimited]_vars
SpecDict == InitDict /\ [][NextDelimited]_vars
SpecDocument == InitDocument /\ [][NextDocument]_vars
\* the composite parses: List consume, Dict consume and parse_cson
SpecComposite ==
    (InitList \/ InitDict \/ InitDocument) /\ [][NextDelimited \/ NextDocument]_vars

\* the dispatcher on texts of every token type
SpecDispatch == InitDispatch /\ [][GenNextToken]_vars
\* A call that has not returned or raised goes on running: the interpreter
\* executes its next statement.  This is WF_vars(Next) with ENABLED <<Next>>_vars
\* written out as pc # "done", which it equals because every action is total on
\* the states of its pc.
Fairness == []<>(pc = "done") \/ []<><<Next>>_vars
\* every operation, each call running on until it has returned or raised
SpecLive == Spec /\ Fairness
\* the delimited consumes: String, MultiLineString, List and Dict
SpecDelimited == (InitString \/ InitList \/ InitDict) /\ [][NextDelimited]_vars

(* ------------------------------ claims -------------------------------- *)

Done == pc = "done"

\* the turn of the loop that has just ended the call, or that is about to
\* be made, consumes a sub-element at j (the closing delimiter is not at j
\* and input remains)
AtSubElement ==
    IF op = "parse_cson"
    THEN j < Len(str_input)
    ELSE /\ op \in DelimitedTypes
         /\ j <= Len(str_input) - Len(delimiters(op)[2])
         /\ match_ignore_text(str_input, j, delimiters(op)[2]) = NoIndex

ParserErrorKinds ==
    {"DelimiterNotFoundError", "BrokenTokenError", "UnknownTokenError",
     "TextEndedPrematurelyError"}

\* C1: parse_cson returns a mapping or raises one of the four error kinds
\* Delimiter-not-found, Broken-token, Unknown-token, Premature-end-of-input;
\* no other failure escapes the call.
C1_OnlyParserErrors ==
    (Done /\ op = "parse_cson") => outcome.kind \in ParserErrorKinds \cup {"ok"}

\* C2: in a nested Dict parse, a sub-element that does not begin with a valid
\* Name (its first non-whitespace character is not alphabetic, or the name is
\* true or false) raises Broken-token.
C2_NoNameIsBrokenToken ==
    ( /\ Done
      /\ op = CSON_DictToken
      /\ outcome.kind # "None"
      /\ AtSubElement
      /\ consume_name(str_input, ignore_whitespace(str_input, j)).kind = "None" )
    => outcome.kind = "BrokenTokenError"

\* the text at index i begins with an optional "-" followed by a character
\* of the class digit
StartsNumber(s, i, digit(_)) ==
    \/ i < Len(s) /\ digit(At(s, i))
    \/ i + 1 < Len(s) /\ At(s, i) = "-" /\ digit(At(s, i + 1))

\* C3: Number consume returns no-match (no value and no error) for every
\* input that does not begin, at the start position, with an optional "-"
\* followed by a digit, the empty input included.
C3_NotANumberIsNoMatch ==
    (Done /\ op = CSON_NumberToken /\ ~StartsNumber(str_input, start_index, isnumeric))
    => outcome = None

\* the comma at index p follows the elements of a list: the text before it,
\* closed by "]", is a list of at least one element
CommaFollowsElement(p) ==
    /\ p < Len(str_input)
    /\ At(str_input, p) = ","
    /\ LET list == consume(CSON_ListToken, Append(Slice(str_input, 0, p), "]"), 0)
       IN  list.kind = "ok" /\ list.next = p + 1 /\ list.value.items # <<>>

\* C4 as claimed: a List parse of a text in which a comma follows an element,
\* with or without whitespace before the comma, raises Unknown-token.
C4_CommaIsUnknownToken ==
    (Done /\ op = CSON_ListToken)
    => \A p \in 1..Len(str_input) :
           CommaFollowsElement(p) => outcome.kind = "UnknownTokenError"

\* C4 as amended: a List parse of a text in which a comma follows an element
\* raises Unknown-token at the comma, unless the comma comes immediately
\* after a Number: then the Number raises Broken-token.
C4_CommaIsUnknownOrBrokenToken ==
    (Done /\ op = CSON_ListToken)
    => \A p \in 1..Len(str_input) :
           CommaFollowsElement(p) =>
               IF isnumeric(At(str_input, p - 1))
               THEN outcome.kind = "BrokenTokenError" /\ outcome.index < p
               ELSE outcome = UnknownTokenError(p)

\* a List parse has ended at a comma that comes immediately after a Number
C4_Witness ==
    /\ Done
    /\ op = CSON_ListToken
    /\ \E p \in 1..Len(str_input) :
           CommaFollowsElement(p) /\ isnumeric(At(str_input, p - 1))
    /\ outcome.kind = "BrokenTokenError"

\* C5: for every delimited token type, when the opening sequence has matched,
\* the content up to the end of input is well-formed (every sub-element before
\* j was consumed and only whitespace, or nothing, is left from j on) and no
\* closing sequence is found, consume raises Delimiter-not-found.
C5_NoClosingIsDelimiterNotFound ==
    ( /\ Done
      /\ op \in DelimitedTypes
      /\ outcome.kind # "None"
      /\ \A k \in 0..(Len(str_input) - 1) : k >= j => isspace(At(str_input, k)) )
    => outcome.kind = "DelimiterNotFoundError"

\* t is a number literal, -?digits(.digits)?
IsNumberLiteral(t) ==
    LET body == IF t # <<>> /\ Head(t) = "-" THEN Tail(t) ELSE t
        dots == {k \in 1..Len(body) : body[k] = "."}
    IN  /\ body # <<>>
        /\ \A k \in 1..Len(body) : k \in dots \/ isdecimal(body[k])
        /\ Cardinality(dots) <= 1
        /\ \A k \in dots : 1 < k /\ k < Len(body)

\* the end of the maximal match of -?digits(.digits)? at index i
MaximalMatch(s, i) ==
    CHOOSE e \in i..Len(s) :
        /\ e > i => IsNumberLiteral(Slice(s, i, e))
        /\ \A e2 \in (e + 1)..Len(s) : ~IsNumberLiteral(Slice(s, i, e2))

\* the number a literal writes, as a fraction num / 10^exp: the digits read
\* as one integer, exp the count of digits after the dot
LiteralNum(t) == digits_value(t, 0) * (IF t # <<>> /\ Head(t) = "-" THEN -1 ELSE 1)
LiteralExp(t) ==
    IF \E k \in 1..Len(t) : t[k] = "." THEN Len(t) - (CHOOSE k \in 1..Len(t) : t[k] = ".") ELSE 0

RECURSIVE Pow10(_)
Pow10(n) == IF n = 0 THEN 1 ELSE 10 * Pow10(n - 1)

\* C6: on an input that begins with an optional "-" followed by a digit,
\* Number consume either succeeds, consuming exactly the maximal match of
\* -?digits(.digits)? and yielding its numeric value, when the match is
\* followed by whitespace, end of input, "]" or "}", or else raises
\* Broken-token: there is no third outcome.
C6_NumberSucceedsOrIsBroken ==
    (Done /\ op = CSON_NumberToken /\ StartsNumber(str_input, start_index, isdecimal))
    => LET e == MaximalMatch(str_input, start_index)
           literal == Slice(str_input, start_index, e)
       IN  IF \/ e = Len(str_input)
              \/ isspace(At(str_input, e))
              \/ At(str_input, e) \in {"]", "}"}
           THEN /\ outcome.kind = "ok"
                /\ outcome.next = e
                /\ outcome.value.t = "float"
                /\ outcome.value.m * Pow10(LiteralExp(literal))
                       = LiteralNum(literal) * Pow10(outcome.value.e)
           ELSE outcome.kind = "BrokenTokenError"

\* the character at index p of the text is consumed by a preceding backslash:
\* the character before it, inside the string, is a backslash that is not
\* itself consumed by a backslash
RECURSIVE Escaped(_)
Escaped(p) ==
    /\ p > seq_start
    /\ At(str_input, p - 1) = "\\"
    /\ ~Escaped(p - 1)

\* the closing delimiter of the string stands at index p and its first
\* character is not consumed by a preceding backslash
ClosesAt(p) ==
    /\ match_ignore_text(str_input, p, delimiters(op)[2]) # NoIndex
    /\ ~Escaped(p)

\* C7: when String or MultiLineString consume succeeds, the value is the raw
\* text between the opening delimiter and the first closing delimiter that is
\* not consumed by a preceding backslash, every backslash and the character
\* after it copied through unchanged; a closing delimiter right after an
\* unconsumed backslash never ends the string.
C7_StringValueIsRawContent ==
    (Done /\ op \in {CSON_StringToken, CSON_MultiLineStringToken} /\ outcome.kind = "ok")
    => LET close == outcome.next - Len(delimiters(op)[2])
       IN  /\ close >= seq_start
           /\ ClosesAt(close)
           /\ \A p \in seq_start..(close - 1) : ~ClosesAt(p)
           /\ outcome.value = StrValue(Slice(str_input, seq_start, close))

\* a string whose value holds a backslash followed by the closing delimiter's
\* first character has been consumed
C7_Witness ==
    /\ Done
    /\ op \in {CSON_StringToken, CSON_MultiLineStringToken}
    /\ outcome.kind = "ok"
    /\ \E k \in 1..(Len(outcome.value.s) - 1) :
           /\ outcome.value.s[k] = "\\"
           /\ outcome.value.s[k + 1] = delimiters(op)[2][1]

\* the values of the elements of a list whose first element, or closing
\* bracket, stands at index i, in the order of the text
RECURSIVE ElementsFrom(_)
ElementsFrom(i) ==
    IF i >= Len(str_input) \/ At(str_input, i) = "]"
    THEN <<>>
    ELSE LET element == cson_gen_next_token(str_input, i, SUBTOKEN_TYPES)
         IN  <<element.value>> \o ElementsFrom(ignore_whitespace(str_input, element.next))

\* C8: when a List parse succeeds, its value is the sequence of the values of
\* its elements in the order of the text, one entry per element and nothing
\* else: [] gives the empty sequence, ["" 1] gives "" then 1.0.
C8_ListValueIsElementsInOrder ==
    (Done /\ op = CSON_ListToken /\ outcome.kind = "ok")
    => /\ outcome.value = ListValue(ElementsFrom(seq_start))
       /\ str_input = <<"[", "]">> => outcome.value.items = <<>>
       /\ str_input = <<"[", "\"", "\"", " ", "1", "]">>
              => outcome.value.items = <<StrValue(<<>>), FloatValue(1, 0)>>
       /\ str_input = <<"[", "1", " ", "\"", "\"", "]">>
              => outcome.value.items = <<FloatValue(1, 0), StrValue(<<>>)>>

\* a list of two different elements has been parsed
C8_Witness ==
    /\ Done
    /\ op = CSON_ListToken
    /\ outcome.kind = "ok"
    /\ Len(outcome.value.items) = 2
    /\ outcome.value.items[1] # outcome.value.items[2]

\* the keys of a dict value, and the value a key is bound to
Keys(dict) == {dict.items[k].key : k \in 1..Len(dict.items)}
Lookup(dict, key) ==
    dict.items[CHOOSE k \in 1..Len(dict.items) : dict.items[k].key = key].val

\* the key/value pair that the sub-element at j holds
KeyValueAtJ ==
    CSON_DictToken_consume_key_value(str_input, ignore_whitespace(str_input, j))

\* C9: in a Dict parse, nested or top-level, after every key/value sub-element
\* is consumed the mapping holds one entry per distinct key seen so far and
\* each key maps to the value of its most recent occurrence; a repeated key
\* raises no error and never produces two entries.
C9_LastWriteWins ==
    [][ ( /\ pc = "loop"
          /\ op \in {CSON_DictToken, "parse_cson"}
          /\ AtSubElement
          /\ KeyValueAtJ.kind = "ok" )
        => ( /\ pc' = "loop"
             /\ Keys(value') = Keys(value) \cup {KeyValueAtJ.value.key}
             /\ Lookup(value', KeyValueAtJ.value.key) = KeyValueAtJ.value.val
             /\ \A key \in Keys(value) \ {KeyValueAtJ.value.key} :
                    Lookup(value', key) = Lookup(value, key)
             /\ Len(value'.items) = Cardinality(Keys(value')) ) ]_vars

\* the key a, first bound to 1, has been bound again, to 0, and the key b is
\* bound too: a has one entry, before that of b
C9_Witness ==
    /\ pc = "loop"
    /\ op \in {CSON_DictToken, "parse_cson"}
    /\ Len(str_input) >= seq_start + 4
    /\ Slice(str_input, seq_start, seq_start + 4) = <<"a", ":", "1", " ">>
    /\ value.items = << [key |-> <<"a">>, val |-> FloatValue(0, 0)],
                        [key |-> <<"b">>, val |-> FloatValue(1, 0)] >>

\* the candidate types that yield something else than no-match at index i
Matching(i) ==
    {k \in 1..Len(SUBTOKEN_TYPES) : consume(SUBTOKEN_TYPES[k], str_input, i).kind # "None"}

\* the first candidate type, in the dispatcher's order, that yields something
\* else than no-match at index i
FirstMatching(i) == CHOOSE k \in Matching(i) : \A k2 \in Matching(i) : k <= k2

\* the index at which the sub-element at j calls the dispatcher: j itself in
\* a list, the index after the ":" in a dict; NoIndex when a dict's
\* sub-element ends before the call
DispatchIndex ==
    IF op = CSON_ListToken
    THEN j
    ELSE LET name == consume_name(str_input, ignore_whitespace(str_input, j))
             colon == ignore_whitespace(str_input, name.next)
         IN  IF /\ name.kind = "ok"
                /\ colon < Len(str_input)
                /\ At(str_input, colon) = KEY_VALUE_INFIX_DELIMITER
             THEN colon + 1
             ELSE NoIndex

\* C10: an error raised while a sub-element is consumed propagates unchanged
\* to the outermost call: the composite whose turn raised ends with that very
\* error, a List or Dict sub-element ends with the error of its dispatcher
\* call, and the dispatcher ends with the error of the first candidate that
\* raises, trying no further candidate.
C10_ErrorsPropagateUnchanged ==
    ( /\ Done
      /\ op \in {CSON_ListToken, CSON_DictToken, "parse_cson"}
      /\ outcome.kind # "None"
      /\ Len(str_input) > 0
      /\ AtSubElement )
    => LET sub == IF op = CSON_ListToken
                  THEN CSON_ListToken_consume_next_sub_element(value, str_input, j)
                  ELSE CSON_DictToken_consume_next_sub_element(value, str_input, j)
           token == cson_gen_next_token(str_input, DispatchIndex, SUBTOKEN_TYPES)
           at == ignore_whitespace(str_input, DispatchIndex)
           first == consume(SUBTOKEN_TYPES[FirstMatching(at)], str_input, at)
       IN  /\ IsRaise(sub) => outcome = sub
           /\ (DispatchIndex # NoIndex /\ IsRaise(token)) => sub = token
           /\ ( /\ DispatchIndex # NoIndex
                /\ at < Len(str_input)
                /\ Matching(at) # {}
                /\ IsRaise(first) )
              => token = first

\* the Broken-token of a Number inside a list inside a list has reached the
\* outermost call
C10_Witness ==
    /\ Done
    /\ op = CSON_ListToken
    /\ Len(str_input) >= 4
    /\ SubSeq(str_input, 1, 4) = <<"[", "[", "1", ",">>
    /\ outcome = CSON_NumberToken_consume(str_input, 2)
    /\ outcome = BrokenTokenError(2)

\* C11: parse_cson of the empty text returns the empty mapping, raises no
\* error and parses no sub-element: the loop of consume_document is never
\* entered, and one turn of it would consume nothing.
C11_EmptyDocumentIsEmptyMapping ==
    (op = "parse_cson" /\ str_input = <<>>)
    => /\ pc # "loop"
       /\ Done => /\ outcome.kind = "ok"
                  /\ outcome.value = DictValue(<<>>)
                  /\ outcome = parse_cson(str_input)
       /\ consume_document_step(str_input, 0, DictValue(<<>>)).done

\* parse_cson of the empty text has returned
C11_Witness ==
    /\ Done
    /\ op = "parse_cson"
    /\ str_input = <<>>
    /\ outcome.value.t = "dict"
    /\ outcome.value.items = <<>>

\* the opening literal of op occurs at start_index
OpeningOccurs ==
    LET opening == delimiters(op)[1]
    IN  /\ start_index + Len(opening) <= Len(str_input)
        /\ \A k \in 1..Len(opening) : At(str_input, start_index + k - 1) = opening[k]

\* C12: for every delimited token type, consume returns no-match if and only
\* if the opening literal does not occur at the start position (also when
\* fewer characters remain than the literal has); once the opening has
\* matched, the outcome is a success whose next index is immediately past the
\* matched closing literal, or an error, never no-match.
C12_NoMatchIffNoOpening ==
    (Done /\ op \in DelimitedTypes)
    => LET closing == delimiters(op)[2]
       IN  /\ outcome = None <=> ~OpeningOccurs
           /\ OpeningOccurs => outcome.kind = "ok" \/ IsRaise(outcome)
           /\ outcome.kind = "ok"
              => /\ outcome.next = j + Len(closing)
                 /\ outcome.next <= Len(str_input)
                 /\ j >= start_index + Len(delimiters(op)[1])
                 /\ \A k \in 1..Len(closing) : At(str_input, j + k - 1) = closing[k]

\* a Dict consume whose opening matched has ended with an error because a
\* sub-element returned no-match
C12_Witness ==
    /\ Done
    /\ op = CSON_DictToken
    /\ OpeningOccurs
    /\ AtSubElement
    /\ CSON_DictToken_consume_next_sub_element(value, str_input, j) = None
    /\ outcome = BrokenTokenError(seq_start)

\* the six candidate types in the order the dispatcher tries them
Candidates ==
    << CSON_ListToken, CSON_DictToken, CSON_StringToken, CSON_MultiLineStringToken,
       CSON_NumberToken, CSON_BooleanToken >>

\* the first candidate type that succeeds at index i, 0 when none does
FirstSucceeding(i) ==
    LET succeeding == {k \in 1..Len(Candidates) :
                           consume(Candidates[k], str_input, i).kind = "ok"}
    IN  IF succeeding = {} THEN 0
        ELSE CHOOSE k \in succeeding : \A k2 \in succeeding : k <= k2

\* C13 as claimed: after skipping whitespace the dispatcher raises
\* Premature-end-of-input if and only if the index is at the end of the
\* input; otherwise, if all six candidates return no-match, it raises
\* Unknown-token with the index of the first non-whitespace character;
\* otherwise it returns the result of the first candidate that succeeds.
C13_DispatcherThreeOutcomes ==
    (Done /\ op = "cson_gen_next_token")
    => LET i == ignore_whitespace(str_input, start_index)
       IN  /\ SUBTOKEN_TYPES = Candidates
           /\ outcome = TextEndedPrematurelyError <=> i >= Len(str_input)
           /\ i < Len(str_input)
              => IF Matching(i) = {}
                 THEN outcome = UnknownTokenError(i)
                 ELSE /\ FirstSucceeding(i) # 0
                      /\ outcome = consume(Candidates[FirstSucceeding(i)], str_input, i)

\* C13 as amended: after skipping whitespace the dispatcher raises
\* Premature-end-of-input when the index is at the end of the input, trying
\* no candidate; otherwise, if all six candidates return no-match, it raises
\* Unknown-token with the index of the first non-whitespace character;
\* otherwise the first candidate, in order, that does not return no-match
\* decides: its result is returned when it succeeds and its error is raised
\* when it raises (a Premature-end-of-input of a nested call included).
C13_DispatcherFirstCandidateDecides ==
    (Done /\ op = "cson_gen_next_token")
    => LET i == ignore_whitespace(str_input, start_index)
       IN  /\ SUBTOKEN_TYPES = Candidates
           /\ i >= Len(str_input) => outcome = TextEndedPrematurelyError
           /\ i < Len(str_input)
              => IF Matching(i) = {}
                 THEN outcome = UnknownTokenError(i)
                 ELSE /\ outcome = consume(Candidates[FirstMatching(i)], str_input, i)
                      /\ outcome.kind = "ok" => FirstSucceeding(i) = FirstMatching(i)

\* the dispatcher, called before a "[" followed by whitespace only, has
\* raised the Premature-end-of-input of the List candidate
C13_Witness ==
    /\ Done
    /\ op = "cson_gen_next_token"
    /\ ignore_whitespace(str_input, start_index) < Len(str_input)
    /\ At(str_input, ignore_whitespace(str_input, start_index)) = "["
    /\ consume(CSON_ListToken, str_input, ignore_whitespace(str_input, start_index))
           = TextEndedPrematurelyError
    /\ outcome = TextEndedPrematurelyError

\* the nested Dict parse of "{" + str_input + "}"
NestedDict == consume(CSON_DictToken, <<"{">> \o str_input \o <<"}">>, 0)

\* the text holds no "{" and no "}"
NoBraces == \A k \in 1..Len(str_input) : str_input[k] \notin {"{", "}"}

\* C14: for a body text without "{" and "}", the top-level parse of the body
\* and the nested Dict parse of "{" + body + "}" behave the same: when one
\* returns a mapping the other returns an equal mapping, and when one fails
\* the other fails too, bodies made only of whitespace included.
C14_TopLevelIsNestedDict ==
    (Done /\ op = "parse_cson" /\ NoBraces)
    => /\ outcome.kind = "ok" <=> NestedDict.kind = "ok"
       /\ outcome.kind = "ok" => outcome.value = NestedDict.value

\* the text with one blank inserted before index p
InsertBlank(p) == Slice(str_input, 0, p) \o <<" ">> \o Slice(str_input, p, Len(str_input))

\* C15: whitespace inside a List's brackets is insignificant: when a list
\* text parses to a value, the text with whitespace inserted directly after
\* "[", between two elements or directly before "]" (the places where the
\* loop of the List parse stands, index j) parses to the same value; [ ]
\* parses to the empty list as [] does.
C15_ListWhitespaceIsInsignificant ==
    (pc = "loop" /\ op = CSON_ListToken)
    => LET list == consume(CSON_ListToken, str_input, start_index)
           spaced == consume(CSON_ListToken, InsertBlank(j), start_index)
       IN  list.kind = "ok"
           => /\ spaced.kind = "ok"
              /\ spaced.value = list.value
              /\ spaced.next = list.next + 1

\* a turn of a loop that goes on has moved the cursor forward
CursorAdvances == (pc = "loop" /\ pc' = "loop") => j' > j

\* the turn a loop is about to make ends the call or moves the cursor
\* forward, and the cursor is never more than one past the end of the text
TurnAdvances ==
    pc = "loop"
    => LET step == IF op = "parse_cson"
                   THEN consume_document_step(str_input, j, value)
                   ELSE consume_until_end_seq_step(
                            str_input, seq_start, delimiters(op)[2], op, j, value)
       IN  /\ step.done \/ step.j > j
           /\ j <= Len(str_input) + 1

\* a consume that has succeeded has consumed at least one character and
\* nothing beyond the end of the text
ConsumedWithinText ==
    (Done /\ op # "parse_cson" /\ outcome.kind = "ok")
    => start_index < outcome.next /\ outcome.next <= Len(str_input)

\* C16: every parse of a finite text terminates, with a value or an error;
\* each sub-element step of the top-level loop and of the delimited-token
\* loop that returns an index returns one strictly greater than the index it
\* was given, and every successful consume returns a next index greater than
\* its start index and at most the length of the text.
C16_ParseTerminates ==
    /\ [][CursorAdvances]_vars
    /\ [](ConsumedWithinText /\ TurnAdvances)
    /\ <>Done

\* a String parse whose last sub-element, a backslash at the end of the text,
\* moved the cursor past the end of the text has ended
C16_Witness ==
    /\ Done
    /\ op = CSON_StringToken
    /\ j = Len(str_input) + 1
    /\ j > 2
    /\ outcome.kind = "DelimiterNotFoundError"

====
